---- MODULE Spec2Model ----
(***************************************************************************)
(* State-machine model of object_tracker: the two log classes (ChangeLog   *)
(* in changelog.py, QueryLog in query_log.py) and the Tracker of           *)
(* tracker.py, which owns a QueryLog.                                      *)
(*                                                                         *)
(* A log instance is of one of the two classes (cls).  The Tracker's own   *)
(* log is always a QueryLog (tracker.py:65).  Every public method is one   *)
(* action; the method's return value (or the exception it raises) is kept  *)
(* in ret, the call and its arguments in op, and the observer invocations  *)
(* the call made in notified.                                              *)
(***************************************************************************)
EXTENDS Integers, Sequences, FiniteSets, TLC

\* ---------------------------------------------------------------- bounds
MaxLog == 2        \* longest log explored
MaxClock == 1      \* largest timestamp datetime.now() returns

\* ------------------------------------------------------------ value sets
Attrs == {"name", "age"}          \* attribute names
Values == {"A", "B"}              \* attribute values (immutable, compared by ==)
None == "None"                    \* Python's None
Absent == "<absent>"              \* an attribute missing from an object's __dict__
\* Mutable values owned by the caller (lists, say), by identity; what each
\* holds is in cells.
Mutables == {"m1", "m2"}

Refs == {"obj", "copy"}           \* the caller's object and the Tracker's private deep copy

VARIABLES
    cls,                     \* class of the log instance: "ChangeLog" or "QueryLog"
    log,                     \* self.log of the log instance
    buffer,                  \* self.buffer of the log instance
    clock,                   \* the last instant datetime.now() returned
    attributes,              \* Tracker.attributes
    observers,               \* Tracker.observers
    attribute_observer_map,  \* Tracker.attribute_observer_map
    auto_notify,             \* Tracker.auto_notify
    active,                  \* Tracker.active
    initial_state,           \* Tracker.initial_state: None or a reference
    heap,                    \* __dict__ of each object, by reference
    taken,                   \* history: whether a snapshot was ever set, and obj's
                             \* __dict__ at the time the last one was taken
    cells,                   \* content of each mutable value the caller owns
    attached,                \* whether obj's tracker attribute holds the Tracker
    notified,                \* observer invocations made by the last call, in order
    op,                      \* the last call and its arguments
    ret                      \* what the last call returned or raised

logVars == <<cls, log, buffer, clock>>
trackerVars == <<attributes, observers, attribute_observer_map, auto_notify, active>>
snapVars == <<initial_state, heap, taken>>
memVars == <<cells, attached>>
vars == <<cls, log, buffer, clock, attributes, observers, attribute_observer_map,
          auto_notify, active, initial_state, heap, taken, cells, attached,
          notified, op, ret>>

\* ------------------------------------------------------- calls and results
Call(name) ==
    [name |-> name, attr |-> None, attrs |-> {}, old |-> None, new |-> None,
     flag |-> FALSE, obj |-> None]

Returned(kind, val) == [kind |-> kind, val |-> val]
ReturnedNone == Returned("None", None)
ReturnedSelf == Returned("self", None)
Raised(exc) == Returned("raise", exc)

\* ------------------------------------------------------------------ Entry
Entry(attr, old, new, ts) ==
    [attr |-> attr, old |-> old, new |-> new, timestamp |-> ts]

\* What a value holds now: a mutable value is looked up, any other is itself.
Content(v) == IF v \in Mutables THEN cells[v] ELSE v

\* a == b of two values: by content, never by identity.
PyEq(a, b) == (a \in Mutables) = (b \in Mutables) /\ Content(a) = Content(b)

is_a_change(entry) == ~PyEq(entry.old, entry.new)

\* datetime.now(timezone.utc): never earlier than the last instant read, and
\* two reads may collide.
Now == {t \in clock..(clock + 1) : t <= MaxClock}

\* ---------------------------------------------------------------- helpers
\* A membership test that looks at the attribute name only.
Contains_by_attr(s, e) == \E i \in 1..Len(s) : s[i].attr = e.attr

Contains(s, e) == \E i \in 1..Len(s) : s[i] = e

EmptyDict == [a \in Attrs |-> Absent]

\* An empty attribute_observer_map: a dict is its key set and its values.
EmptyMap == [keys |-> {}, val |-> [a \in Attrs |-> <<>>]]

Min(S) == CHOOSE x \in S : \A y \in S : x <= y
Max(S) == CHOOSE x \in S : \A y \in S : x >= y

\* Frame of a call on the log instance: the Tracker's other fields and the
\* snapshot are untouched and no observer runs.
LogCallFrame ==
    /\ notified' = <<>>
    /\ UNCHANGED <<cls, trackerVars, snapVars, memVars>>

\* ============================================================== ChangeLog
\* ChangeLog.reset_buffer: the buffer after the call.
reset_buffer_skipped == buffer

reset_buffer == IF buffer # <<>> THEN <<>> ELSE buffer

\* ChangeLog.get_selected_logs: the list returned (the buffer is reset by the caller
\* of this operator, as the method does after picking the list).
get_selected_logs == IF buffer # <<>> THEN buffer ELSE log

\* ChangeLog.apply_filters: the buffer after the call.  attrs = {} stands for an
\* empty or omitted attrs argument.
apply_filters(attrs, exclude, changes_only) ==
    LET selected ==
            IF attrs # {}
            THEN IF exclude
                 THEN SelectSeq(log, LAMBDA entry : entry.attr \notin attrs)
                 ELSE SelectSeq(log, LAMBDA entry : entry.attr \in attrs)
            ELSE buffer
    IN  IF changes_only THEN SelectSeq(selected, is_a_change) ELSE selected

ChangeLog_filter(attrs, changes_only) ==
    /\ cls = "ChangeLog"
    /\ op' = [Call("filter") EXCEPT !.attrs = attrs, !.flag = changes_only]
    /\ IF attrs = {}
       THEN /\ ret' = Raised("InvalidChangeLogOperationException")
            /\ UNCHANGED buffer
       ELSE /\ buffer' = apply_filters(attrs, FALSE, changes_only)
            /\ ret' = ReturnedSelf
    /\ UNCHANGED <<log, clock>>
    /\ LogCallFrame

ChangeLog_exclude(attrs, changes_only) ==
    /\ cls = "ChangeLog"
    /\ op' = [Call("exclude") EXCEPT !.attrs = attrs, !.flag = changes_only]
    /\ IF attrs = {}
       THEN /\ ret' = Returned("exception", "InvalidChangeLogOperationException")
            /\ UNCHANGED buffer
       ELSE /\ buffer' = apply_filters(attrs, TRUE, changes_only)
            /\ ret' = ReturnedSelf
    /\ UNCHANGED <<log, clock>>
    /\ LogCallFrame

ChangeLog_first ==
    /\ cls = "ChangeLog"
    /\ op' = Call("first")
    /\ LET logs == get_selected_logs
       IN  ret' = IF logs # <<>> THEN Returned("Entry", logs[1]) ELSE ReturnedNone
    /\ buffer' = reset_buffer
    /\ UNCHANGED <<log, clock>>
    /\ LogCallFrame

ChangeLog_last ==
    /\ cls = "ChangeLog"
    /\ op' = Call("last")
    /\ LET logs == get_selected_logs
       IN  ret' = IF logs # <<>> THEN Returned("Entry", logs[Len(logs)]) ELSE ReturnedNone
    /\ buffer' = reset_buffer
    /\ UNCHANGED <<log, clock>>
    /\ LogCallFrame

ChangeLog_all ==
    /\ cls = "ChangeLog"
    /\ op' = Call("all")
    /\ ret' = Returned("list", get_selected_logs)
    /\ buffer' = reset_buffer
    /\ UNCHANGED <<log, clock>>
    /\ LogCallFrame

ChangeLog_delete ==
    /\ cls = "ChangeLog"
    /\ op' = Call("delete")
    /\ log' = IF buffer # <<>>
              THEN SelectSeq(log, LAMBDA entry : ~Contains(buffer, entry))
              ELSE <<>>
    /\ buffer' = reset_buffer
    /\ ret' = ReturnedNone
    /\ UNCHANGED clock
    /\ LogCallFrame

ChangeLog_count ==
    /\ cls = "ChangeLog"
    /\ op' = Call("count")
    /\ ret' = Returned("int", Len(get_selected_logs))
    /\ buffer' = reset_buffer
    /\ UNCHANGED <<log, clock>>
    /\ LogCallFrame

\* copy.deepcopy of a value: an immutable value is itself; the copy of a
\* mutable one is a new object nobody else holds, which stays what the original
\* held when it was copied.
deepcopy_value(v) == Content(v)

\* ChangeLog.push, which stores deep copies of old and new.
ChangeLog_push(attr, old, new) ==
    /\ cls = "ChangeLog"
    /\ Len(log) < MaxLog
    /\ op' = [Call("push") EXCEPT !.attr = attr, !.old = old, !.new = new]
    /\ \E t \in Now :
          /\ log' = Append(log, Entry(attr, deepcopy_value(old), deepcopy_value(new), t))
          /\ clock' = t
    /\ ret' = ReturnedNone
    /\ UNCHANGED buffer
    /\ LogCallFrame

ChangeLog_get_unique_attributes ==
    /\ cls = "ChangeLog"
    /\ op' = Call("get_unique_attributes")
    /\ LET logs == get_selected_logs
       IN  ret' = Returned("set", {logs[i].attr : i \in 1..Len(logs)})
    /\ buffer' = reset_buffer
    /\ UNCHANGED <<log, clock>>
    /\ LogCallFrame

\* ChangeLog.get_first_log_for_attribute: the value returned.  attr = None
\* matches every entry.
get_first_log_for_attribute(attr, reverse, only_changes) ==
    LET hits == {i \in 1..Len(log) :
                    /\ ~(attr # None /\ log[i].attr # attr)
                    /\ ~(only_changes /\ ~is_a_change(log[i]))}
    IN  IF hits = {} THEN ReturnedNone
        ELSE Returned("Entry", log[IF reverse THEN Max(hits) ELSE Min(hits)])

\* Python truth value of what an entry lookup returned: None is false, an Entry
\* (a four-field namedtuple) is true.
Truthy(r) == r.kind # "None"

\* ChangeLog.has_changed: the value returned.
has_changed_any_entry(attr) ==
    Truthy(get_first_log_for_attribute(attr, FALSE, FALSE))

has_changed_last_entry_only(attr) ==
    LET last == get_first_log_for_attribute(attr, TRUE, FALSE)
    IN  Truthy(last) /\ ~PyEq(last.val.old, last.val.new)

has_changed(attr) ==
    LET first == get_first_log_for_attribute(attr, FALSE, FALSE)
        last == get_first_log_for_attribute(attr, TRUE, FALSE)
    IN  IF ~Truthy(first) /\ ~Truthy(last) THEN FALSE
        ELSE IF ~Truthy(first) \/ ~Truthy(last) THEN TRUE
        ELSE IF ~PyEq(first.val.old, last.val.new) THEN TRUE
        ELSE FALSE

ChangeLog_has_changed(attr) ==
    /\ cls = "ChangeLog"
    /\ op' = [Call("has_changed") EXCEPT !.attr = attr]
    /\ ret' = Returned("bool", has_changed(attr))
    /\ UNCHANGED <<log, buffer, clock>>
    /\ LogCallFrame

\* =============================================================== QueryLog
\* The operators below take the buffer as a parameter b, so that a Tracker
\* method that makes several calls on its log can thread the buffer through.

\* QueryLog._reset_buffer: the buffer after the call.
_reset_buffer_skipped(b) == b

_reset_buffer(b) == IF b # <<>> THEN <<>> ELSE b

\* QueryLog._get_active_logs: the list returned.
_get_active_logs(b) == IF b # <<>> THEN b ELSE log

\* QueryLog._filter
_filter(entry, attrs) == IF attrs # {} THEN entry.attr \in attrs ELSE TRUE

\* QueryLog._process_filter: the buffer after the call.
_process_filter_refining(attrs, exclude) ==
    IF exclude
    THEN SelectSeq(_get_active_logs(buffer), LAMBDA item : ~_filter(item, attrs))
    ELSE SelectSeq(_get_active_logs(buffer), LAMBDA item : _filter(item, attrs))

_process_filter(attrs, exclude) ==
    IF exclude
    THEN SelectSeq(log, LAMBDA item : ~_filter(item, attrs))
    ELSE SelectSeq(log, LAMBDA item : _filter(item, attrs))

QueryLog_filter(attrs) ==
    /\ cls = "QueryLog"
    /\ op' = [Call("filter") EXCEPT !.attrs = attrs]
    /\ IF attrs = {}
       THEN /\ ret' = Raised("InvalidQueryLogOperationException")
            /\ UNCHANGED buffer
       ELSE /\ buffer' = _process_filter(attrs, FALSE)
            /\ ret' = ReturnedSelf
    /\ UNCHANGED <<log, clock>>
    /\ LogCallFrame

QueryLog_exclude(attrs) ==
    /\ cls = "QueryLog"
    /\ op' = [Call("exclude") EXCEPT !.attrs = attrs]
    /\ IF attrs = {}
       THEN /\ ret' = Returned("exception", "InvalidQueryLogOperationException")
            /\ UNCHANGED buffer
       ELSE /\ buffer' = _process_filter(attrs, TRUE)
            /\ ret' = ReturnedSelf
    /\ UNCHANGED <<log, clock>>
    /\ LogCallFrame

QueryLog_first ==
    /\ cls = "QueryLog"
    /\ op' = Call("first")
    /\ LET logs == _get_active_logs(buffer)
       IN  ret' = IF logs # <<>> THEN Returned("Entry", logs[1]) ELSE ReturnedNone
    /\ buffer' = _reset_buffer(buffer)
    /\ UNCHANGED <<log, clock>>
    /\ LogCallFrame

QueryLog_last ==
    /\ cls = "QueryLog"
    /\ op' = Call("last")
    /\ LET logs == _get_active_logs(buffer)
       IN  ret' = IF logs # <<>> THEN Returned("Entry", logs[Len(logs)]) ELSE ReturnedNone
    /\ buffer' = _reset_buffer(buffer)
    /\ UNCHANGED <<log, clock>>
    /\ LogCallFrame

QueryLog_fetch ==
    /\ cls = "QueryLog"
    /\ op' = Call("fetch")
    /\ ret' = Returned("list", _get_active_logs(buffer))
    /\ buffer' = _reset_buffer(buffer)
    /\ UNCHANGED <<log, clock>>
    /\ LogCallFrame

QueryLog_flush ==
    /\ cls = "QueryLog"
    /\ op' = Call("flush")
    /\ log' = IF buffer # <<>>
              THEN SelectSeq(log, LAMBDA item : ~Contains(buffer, item))
              ELSE <<>>
    /\ buffer' = _reset_buffer(buffer)
    /\ ret' = ReturnedNone
    /\ UNCHANGED clock
    /\ LogCallFrame

QueryLog_count ==
    /\ cls = "QueryLog"
    /\ op' = Call("count")
    /\ ret' = Returned("int", Len(_get_active_logs(buffer)))
    /\ buffer' = _reset_buffer(buffer)
    /\ UNCHANGED <<log, clock>>
    /\ LogCallFrame

\* QueryLog.push: what the log becomes; the values are stored as passed.
push_front(attr, old, new, t) == <<Entry(attr, old, new, t)>> \o log

push(attr, old, new, t) == Append(log, Entry(attr, old, new, t))

QueryLog_push(attr, old, new) ==
    /\ cls = "QueryLog"
    /\ Len(log) < MaxLog
    /\ op' = [Call("push") EXCEPT !.attr = attr, !.old = old, !.new = new]
    /\ \E t \in Now :
          /\ log' = push(attr, old, new, t)
          /\ clock' = t
    /\ ret' = ReturnedNone
    /\ UNCHANGED buffer
    /\ LogCallFrame

\* QueryLog.get_unique_attributes: the set returned.
get_unique_attributes(b) ==
    LET logs == _get_active_logs(b)
    IN  {logs[i].attr : i \in 1..Len(logs)}

QueryLog_get_unique_attributes ==
    /\ cls = "QueryLog"
    /\ op' = Call("get_unique_attributes")
    /\ ret' = Returned("set", get_unique_attributes(buffer))
    /\ buffer' = _reset_buffer(buffer)
    /\ UNCHANGED <<log, clock>>
    /\ LogCallFrame

\* The positions of the active list that get_last_change / get_first_change
\* do not skip.  attr = None matches every entry.
ChangeHits(b, attr) ==
    LET logs == _get_active_logs(b)
    IN  {i \in 1..Len(logs) : ~(attr # None /\ logs[i].attr # attr)}

\* QueryLog.get_last_change: the value returned, and the buffer after the call
\* (the buffer is reset only on the path that found nothing).
get_last_change(b, attr) ==
    LET hits == ChangeHits(b, attr)
    IN  IF hits = {} THEN ReturnedNone
        ELSE Returned("Entry", _get_active_logs(b)[Max(hits)])

get_first_change(b, attr) ==
    LET hits == ChangeHits(b, attr)
    IN  IF hits = {} THEN ReturnedNone
        ELSE Returned("Entry", _get_active_logs(b)[Min(hits)])

BufferAfterChangeLookup(b, attr) ==
    IF ChangeHits(b, attr) = {} THEN _reset_buffer(b) ELSE b

QueryLog_get_last_change(attr) ==
    /\ cls = "QueryLog"
    /\ op' = [Call("get_last_change") EXCEPT !.attr = attr]
    /\ ret' = get_last_change(buffer, attr)
    /\ buffer' = BufferAfterChangeLookup(buffer, attr)
    /\ UNCHANGED <<log, clock>>
    /\ LogCallFrame

QueryLog_get_first_change(attr) ==
    /\ cls = "QueryLog"
    /\ op' = [Call("get_first_change") EXCEPT !.attr = attr]
    /\ ret' = get_first_change(buffer, attr)
    /\ buffer' = BufferAfterChangeLookup(buffer, attr)
    /\ UNCHANGED <<log, clock>>
    /\ LogCallFrame

\* QueryLog.has_changes: the value returned.
has_changes_never(b, attr) == FALSE

has_changes(b, attr) == IF Truthy(get_last_change(b, attr)) THEN TRUE ELSE FALSE

QueryLog_has_changes(attr) ==
    /\ cls = "QueryLog"
    /\ op' = [Call("has_changes") EXCEPT !.attr = attr]
    /\ ret' = Returned("bool", has_changes(buffer, attr))
    /\ buffer' = BufferAfterChangeLookup(buffer, attr)
    /\ UNCHANGED <<log, clock>>
    /\ LogCallFrame

\* ------------------------------------------------- a log instance used alone
InitTracker ==
    /\ attributes = {}
    /\ observers = <<>>
    /\ attribute_observer_map = EmptyMap
    /\ auto_notify = TRUE
    /\ active = TRUE

InitNoSnapshot ==
    /\ initial_state = None
    /\ heap = [r \in Refs |-> EmptyDict]
    /\ taken = [set |-> FALSE, dict |-> EmptyDict]

\* The caller's mutable values hold different things, and obj has no tracker
\* attribute yet.
InitCaller ==
    /\ cells = [m \in Mutables |-> IF m = "m1" THEN "A" ELSE "B"]
    /\ attached = FALSE

InitCall ==
    /\ notified = <<>>
    /\ op = Call("__init__")
    /\ ret = ReturnedNone

InitLog ==
    /\ cls \in {"ChangeLog", "QueryLog"}
    /\ log = <<>>
    /\ buffer = <<>>
    /\ clock = 0
    /\ InitTracker
    /\ InitNoSnapshot
    /\ InitCaller
    /\ InitCall

NextChangeLog ==
    \/ \E attrs \in SUBSET Attrs, changes_only \in BOOLEAN :
          ChangeLog_filter(attrs, changes_only)
    \/ \E attrs \in SUBSET Attrs, changes_only \in BOOLEAN :
          ChangeLog_exclude(attrs, changes_only)
    \/ ChangeLog_first
    \/ ChangeLog_last
    \/ ChangeLog_all
    \/ ChangeLog_delete
    \/ ChangeLog_count
    \/ \E attr \in Attrs, old \in Values, new \in Values : ChangeLog_push(attr, old, new)
    \/ ChangeLog_get_unique_attributes
    \/ \E attr \in Attrs : ChangeLog_has_changed(attr)

NextQueryLogQueries ==
    \/ \E attrs \in SUBSET Attrs : QueryLog_filter(attrs)
    \/ \E attrs \in SUBSET Attrs : QueryLog_exclude(attrs)
    \/ QueryLog_first
    \/ QueryLog_last
    \/ QueryLog_fetch
    \/ QueryLog_flush
    \/ QueryLog_count
    \/ QueryLog_get_unique_attributes
    \/ \E attr \in Attrs \cup {None} : QueryLog_get_last_change(attr)
    \/ \E attr \in Attrs \cup {None} : QueryLog_get_first_change(attr)
    \/ \E attr \in Attrs : QueryLog_has_changes(attr)

NextQueryLog ==
    \/ NextQueryLogQueries
    \/ \E attr \in Attrs, old \in Values, new \in Values : QueryLog_push(attr, old, new)

NextLog == NextChangeLog \/ NextQueryLog

\* A log instance of either class, driven through its public methods.
SpecLog == InitLog /\ [][NextLog]_vars

\* A ChangeLog alone.
InitChangeLog ==
    /\ InitLog
    /\ cls = "ChangeLog"

SpecChangeLog == InitChangeLog /\ [][NextChangeLog]_vars

\* ================================================================ Tracker
\* The objects handed to the Tracker are instances of plain classes (as
\* UntrackedUser in the tests): an object is true in a condition, None is false.

\* The observers that raise when they are called; every other one returns.
Failing == {"boom"}

\* How far the loop of _call_observers gets: nothing catches an exception of
\* an observer, so the first one that raises is the last one called.
Reached_all(obs) == Len(obs)

Reached(obs) ==
    IF \E i \in 1..Len(obs) : obs[i] \in Failing
    THEN Min({i \in 1..Len(obs) : obs[i] \in Failing})
    ELSE Len(obs)

\* Tracker._call_observers: the invocations made, in order.
_call_observers_reversed(attr, old, new, obs) ==
    [i \in 1..Len(obs) |->
        [observer |-> obs[Len(obs) + 1 - i], attr |-> attr, old |-> old, new |-> new]]

_call_observers(attr, old, new, obs) ==
    [i \in 1..Reached(obs) |-> [observer |-> obs[i], attr |-> attr, old |-> old, new |-> new]]

\* Whether the loop of _call_observers is left by an exception.
_call_observers_raises(obs) == \E i \in 1..Len(obs) : obs[i] \in Failing

\* dict.get(attr, []) on attribute_observer_map
MapGet(attr) ==
    IF attr \in attribute_observer_map.keys THEN attribute_observer_map.val[attr] ELSE <<>>

\* Tracker.notify_observers: the invocations made, in order.
notify_observers(attr, old, new) ==
    IF attribute_observer_map.keys # {}
    THEN _call_observers(attr, old, new, MapGet(attr))
    ELSE IF observers # <<>>
         THEN IF attributes # {} /\ attr \notin attributes
              THEN <<>>
              ELSE _call_observers(attr, old, new, observers)
         ELSE <<>>

\* Whether notify_observers is left by the exception of an observer.
notify_observers_raises(attr) ==
    IF attribute_observer_map.keys # {}
    THEN _call_observers_raises(MapGet(attr))
    ELSE IF observers # <<>>
         THEN IF attributes # {} /\ attr \notin attributes
              THEN FALSE
              ELSE _call_observers_raises(observers)
         ELSE FALSE

Tracker_notify_observers(attr, old, new) ==
    /\ cls = "QueryLog"
    /\ op' = [Call("notify_observers") EXCEPT !.attr = attr, !.old = old, !.new = new]
    /\ notified' = notify_observers(attr, old, new)
    /\ ret' = IF notify_observers_raises(attr) THEN Raised("ObserverError")
              ELSE ReturnedNone
    /\ UNCHANGED <<logVars, trackerVars, snapVars, memVars>>

Tracker_activate ==
    /\ cls = "QueryLog"
    /\ op' = Call("activate")
    /\ active' = IF ~active THEN TRUE ELSE active
    /\ ret' = ReturnedNone
    /\ notified' = <<>>
    /\ UNCHANGED <<logVars, attributes, observers, attribute_observer_map, auto_notify,
                   snapVars, memVars>>

Tracker_deactivate ==
    /\ cls = "QueryLog"
    /\ op' = Call("deactivate")
    /\ active' = IF active THEN FALSE ELSE active
    /\ ret' = ReturnedNone
    /\ notified' = <<>>
    /\ UNCHANGED <<logVars, attributes, observers, attribute_observer_map, auto_notify,
                   snapVars, memVars>>

Tracker_is_active ==
    /\ cls = "QueryLog"
    /\ op' = Call("is_active")
    /\ ret' = Returned("bool", active)
    /\ notified' = <<>>
    /\ UNCHANGED <<logVars, trackerVars, snapVars, memVars>>

\* Tracker.track: the test that makes a call a no-op.
track_is_noop_never(old, new) == FALSE

track_is_noop(old, new) == PyEq(old, new)

\* Tracker.track: whether the activity gate refuses the call.
track_refuses(raise_excp) == raise_excp /\ ~active

\* Tracker.track: whether observers are notified after the push.
track_notifies == auto_notify

Tracker_track(attr, old, new, raise_excp) ==
    /\ cls = "QueryLog"
    /\ op' = [Call("track") EXCEPT !.attr = attr, !.old = old, !.new = new,
                                   !.flag = raise_excp]
    /\ IF track_refuses(raise_excp)
       THEN /\ ret' = Raised("InitialStateMissingException")
            /\ notified' = <<>>
            /\ UNCHANGED <<log, clock>>
       ELSE IF track_is_noop(old, new)
       THEN /\ ret' = ReturnedNone
            /\ notified' = <<>>
            /\ UNCHANGED <<log, clock>>
       ELSE /\ Len(log) < MaxLog
            /\ \E t \in Now :
                  /\ log' = push(attr, old, new, t)
                  /\ clock' = t
            /\ notified' = IF track_notifies THEN notify_observers(attr, old, new) ELSE <<>>
            /\ ret' = IF track_notifies /\ notify_observers_raises(attr)
                      THEN Raised("ObserverError")
                      ELSE ReturnedNone
    /\ UNCHANGED <<cls, buffer, trackerVars, snapVars, memVars>>

\* getattr(x, attr, None), x an object reference or None
GetAttr(r, attr) ==
    IF r \notin Refs THEN None
    ELSE IF heap[r][attr] = Absent THEN None
    ELSE heap[r][attr]

\* `not self.initial_state`
initial_state_missing_unchecked == FALSE

initial_state_missing == initial_state = None

Tracker_has_attribute_changed(attr, o) ==
    /\ cls = "QueryLog"
    /\ op' = [Call("has_attribute_changed") EXCEPT !.attr = attr, !.obj = o]
    /\ IF o # None
       THEN /\ ret' = IF initial_state_missing
                      THEN Raised("InitialStateMissingException")
                      ELSE Returned("bool", GetAttr(initial_state, attr) # GetAttr(o, attr))
            /\ UNCHANGED buffer
       ELSE /\ ret' = Returned("bool", has_changes(buffer, attr))
            /\ buffer' = BufferAfterChangeLookup(buffer, attr)
    /\ notified' = <<>>
    /\ UNCHANGED <<cls, log, clock, trackerVars, snapVars, memVars>>

\* Tracker.has_changed.  Without obj: get_unique_attributes resets the buffer, so
\* every has_changes call that follows scans the log with an empty buffer and
\* leaves it empty.  With obj and a missing check, None.__dict__ would raise.
Tracker_has_changed(o) ==
    /\ cls = "QueryLog"
    /\ op' = [Call("has_changed") EXCEPT !.obj = o]
    /\ IF o # None
       THEN /\ ret' = IF initial_state_missing
                      THEN Raised("InitialStateMissingException")
                      ELSE IF initial_state \notin Refs
                      THEN Raised("AttributeError")
                      ELSE Returned("bool", heap[o] # heap[initial_state])
            /\ UNCHANGED buffer
       ELSE LET attrs == get_unique_attributes(buffer)
                b == _reset_buffer(buffer)
            IN  /\ ret' = Returned("bool", \E attr \in attrs : has_changes(b, attr))
                /\ buffer' = b
    /\ notified' = <<>>
    /\ UNCHANGED <<cls, log, clock, trackerVars, snapVars, memVars>>

\* copy.deepcopy of an object: the reference of the copy, a new object.
deepcopy_aliased(r) == r

deepcopy(r) == "copy"

Tracker_set_initial_state(o) ==
    /\ cls = "QueryLog"
    /\ op' = [Call("set_initial_state") EXCEPT !.obj = o]
    /\ initial_state' = deepcopy(o)
    /\ heap' = [heap EXCEPT ![deepcopy(o)] = heap[o]]
    /\ taken' = [set |-> TRUE, dict |-> heap[o]]
    /\ ret' = ReturnedNone
    /\ notified' = <<>>
    /\ UNCHANGED <<logVars, trackerVars, memVars>>

\* obj.attr = value on an object that is not intercepted (a plain class)
SetAttr(attr, value) ==
    /\ op' = [Call("setattr") EXCEPT !.attr = attr, !.new = value, !.obj = "obj"]
    /\ heap' = [heap EXCEPT !["obj"][attr] = value]
    /\ ret' = ReturnedNone
    /\ notified' = <<>>
    /\ UNCHANGED <<logVars, trackerVars, initial_state, taken, memVars>>

\* ------------------------------------------- a Tracker fed by track() calls
\* The constructor arguments explored: no observer at all, global observers
\* with and without an attribute list, and a per-attribute map next to global
\* observers.
Registries ==
    { [attributes |-> {}, observers |-> <<>>, map |-> EmptyMap],
      [attributes |-> {}, observers |-> <<"f", "g">>, map |-> EmptyMap],
      [attributes |-> {"name"}, observers |-> <<"f", "g">>, map |-> EmptyMap],
      [attributes |-> {}, observers |-> <<"f", "g">>,
       map |-> [keys |-> {"name"},
                val |-> [a \in Attrs |-> IF a = "name" THEN <<"h">> ELSE <<>>]]] }

\* Tracker.__init__
InitTrackerWith(attributes_arg, observers_arg, map_arg, auto_notify_arg, active_arg) ==
    /\ cls = "QueryLog"
    /\ log = <<>>
    /\ buffer = <<>>
    /\ clock = 0
    /\ attributes = attributes_arg
    /\ observers = observers_arg
    /\ attribute_observer_map = map_arg
    /\ auto_notify = auto_notify_arg
    /\ active = (active_arg \/ TRUE)

\* A Tracker built as the tests build it (global observers only), driven by
\* track() calls and by queries on it and on its log.
InitTrackerSpec ==
    /\ \E auto_notify_arg \in BOOLEAN, active_arg \in BOOLEAN :
          InitTrackerWith({}, <<"f", "g">>, EmptyMap, auto_notify_arg, active_arg)
    /\ InitNoSnapshot
    /\ InitCaller
    /\ InitCall

NextTracker ==
    \/ \E attr \in Attrs, old \in Values, new \in Values, raise_excp \in BOOLEAN :
          Tracker_track(attr, old, new, raise_excp)
    \/ Tracker_activate
    \/ Tracker_deactivate
    \/ Tracker_is_active
    \/ \E attr \in Attrs : Tracker_has_attribute_changed(attr, None)
    \/ Tracker_has_changed(None)
    \/ \E attrs \in SUBSET Attrs : QueryLog_filter(attrs)
    \/ QueryLog_flush
    \/ QueryLog_count

SpecTracker == InitTrackerSpec /\ [][NextTracker]_vars

\* ------------------------------- a Tracker with every kind of registry
InitNotifySpec ==
    /\ \E r \in Registries, auto_notify_arg \in BOOLEAN, active_arg \in BOOLEAN :
          InitTrackerWith(r.attributes, r.observers, r.map, auto_notify_arg, active_arg)
    /\ InitNoSnapshot
    /\ InitCaller
    /\ InitCall

NextNotify ==
    \/ \E attr \in Attrs, old \in Values, new \in Values, raise_excp \in BOOLEAN :
          Tracker_track(attr, old, new, raise_excp)
    \/ \E attr \in Attrs : Tracker_notify_observers(attr, "A", "B")
    \/ Tracker_activate
    \/ Tracker_deactivate
    \/ QueryLog_filter({"name"})

SpecNotify == InitNotifySpec /\ [][NextNotify]_vars

\* ------------------------------------ a Tracker used for snapshot diffing
\* Tracker(initial_state=arg) next to a plain object whose attributes are d.
InitSnapshotWith(d, arg) ==
    /\ initial_state = IF arg # None THEN deepcopy(arg) ELSE None
    /\ heap = IF arg # None
              THEN [[r \in Refs |-> EmptyDict] EXCEPT !["obj"] = d, ![deepcopy(arg)] = d]
              ELSE [[r \in Refs |-> EmptyDict] EXCEPT !["obj"] = d]
    /\ taken = IF arg # None THEN [set |-> TRUE, dict |-> d]
               ELSE [set |-> FALSE, dict |-> EmptyDict]

InitSnapshotSpec ==
    /\ InitTrackerWith({}, <<>>, EmptyMap, TRUE, TRUE)
    /\ \E d \in [Attrs -> Values \cup {Absent}], arg \in {None, "obj"} :
          InitSnapshotWith(d, arg)
    /\ InitCaller
    /\ InitCall

NextSnapshot ==
    \/ \E attr \in Attrs, value \in Values : SetAttr(attr, value)
    \/ Tracker_set_initial_state("obj")
    \/ Tracker_has_changed("obj")
    \/ \E attr \in Attrs : Tracker_has_attribute_changed(attr, "obj")
    \/ Tracker_track("name", "A", "B", TRUE)
    \/ QueryLog_filter({"name"})

SpecSnapshot == InitSnapshotSpec /\ [][NextSnapshot]_vars

\* ----------------------------------- a log that is selected from and pruned
NextDelete ==
    \/ \E attr \in Attrs, new \in Values : ChangeLog_push(attr, "A", new)
    \/ \E attr \in Attrs, new \in Values : QueryLog_push(attr, "A", new)
    \/ \E attrs \in SUBSET Attrs : ChangeLog_filter(attrs, FALSE)
    \/ \E attrs \in SUBSET Attrs : ChangeLog_exclude(attrs, TRUE)
    \/ \E attrs \in SUBSET Attrs : QueryLog_filter(attrs)
    \/ \E attrs \in SUBSET Attrs : QueryLog_exclude(attrs)
    \/ ChangeLog_delete
    \/ QueryLog_flush

SpecDelete == InitLog /\ [][NextDelete]_vars

\* ------------------------ a log that is selected from, read, pruned and fed
NextBuffer ==
    \/ NextDelete
    \/ ChangeLog_first
    \/ ChangeLog_last
    \/ ChangeLog_all
    \/ ChangeLog_count
    \/ QueryLog_first
    \/ QueryLog_last
    \/ QueryLog_fetch
    \/ QueryLog_count

SpecBuffer == InitLog /\ [][NextBuffer]_vars

\* ------------------------------ the same log with its change queries as well
NextAppend ==
    \/ NextBuffer
    \/ ChangeLog_get_unique_attributes
    \/ QueryLog_get_unique_attributes
    \/ \E attr \in Attrs : ChangeLog_has_changed(attr)
    \/ \E attr \in Attrs : QueryLog_has_changes(attr)
    \/ \E attr \in Attrs \cup {None} : QueryLog_get_last_change(attr)
    \/ \E attr \in Attrs \cup {None} : QueryLog_get_first_change(attr)

SpecAppend == InitLog /\ [][NextAppend]_vars

\* ------------------------------- a log fed with mutable values of the caller
\* An in-place mutation by the caller of a value it passed earlier (a list
\* appended to, say): the object keeps its identity and holds something else.
MutateInPlace(m, v) ==
    /\ cells[m] # v
    /\ op' = [Call("mutate") EXCEPT !.obj = m, !.new = v]
    /\ cells' = [cells EXCEPT ![m] = v]
    /\ ret' = ReturnedNone
    /\ notified' = <<>>
    /\ UNCHANGED <<logVars, trackerVars, snapVars, attached>>

NextAlias ==
    \/ \E old, new \in Mutables : ChangeLog_push("name", old, new)
    \/ \E old, new \in Mutables : QueryLog_push("name", old, new)
    \/ \E old, new \in Mutables : Tracker_track("name", old, new, TRUE)
    \/ \E m \in Mutables, v \in Values : MutateInPlace(m, v)
    \/ ChangeLog_last
    \/ QueryLog_last

SpecAlias == InitLog /\ [][NextAlias]_vars

\* ---------------------------------------- an object written through the mixin
\* Tracker.should_track, which the mixin calls and tracker.py does not define:
\* True when no attribute list was given or attr is in the list.
should_track(attr) == attributes = {} \/ attr \in attributes

Tracker_should_track(attr) ==
    /\ cls = "QueryLog"
    /\ op' = [Call("should_track") EXCEPT !.attr = attr]
    /\ ret' = Returned("bool", should_track(attr))
    /\ notified' = <<>>
    /\ UNCHANGED <<logVars, trackerVars, snapVars, memVars>>

\* TrackerMixin.__track_changes: whether the write is handed to track.
consults_tracker_always(attr) == TRUE

consults_tracker_unattached(attr) == should_track(attr)

consults_tracker(attr) == attached /\ should_track(attr)

\* getattr(self, attr, value) in __track_changes: the current value, and the
\* incoming one when the attribute is not set yet.
CurrentOr(attr, value) ==
    IF heap["obj"][attr] = Absent THEN value ELSE heap["obj"][attr]

\* TrackerMixin.__setattr__ for an attribute other than the tracker's:
\* __track_changes, in which track may refuse and abort the write, then the
\* write itself.
TrackerMixin_setattr(attr, value) ==
    /\ cls = "QueryLog"
    /\ op' = [Call("__setattr__") EXCEPT !.attr = attr, !.new = value, !.obj = "obj"]
    /\ IF ~consults_tracker(attr)
       THEN /\ heap' = [heap EXCEPT !["obj"][attr] = value]
            /\ ret' = ReturnedNone
            /\ notified' = <<>>
            /\ UNCHANGED <<log, clock>>
       ELSE IF track_refuses(TRUE)
       THEN /\ ret' = Raised("InitialStateMissingException")
            /\ notified' = <<>>
            /\ UNCHANGED <<log, clock, heap>>
       ELSE IF track_is_noop(CurrentOr(attr, value), value)
       THEN /\ heap' = [heap EXCEPT !["obj"][attr] = value]
            /\ ret' = ReturnedNone
            /\ notified' = <<>>
            /\ UNCHANGED <<log, clock>>
       ELSE /\ Len(log) < MaxLog
            /\ \E t \in Now :
                  /\ log' = push(attr, CurrentOr(attr, value), value, t)
                  /\ clock' = t
            /\ notified' = IF track_notifies
                           THEN notify_observers(attr, CurrentOr(attr, value), value)
                           ELSE <<>>
            /\ IF track_notifies /\ notify_observers_raises(attr)
               THEN /\ ret' = Raised("ObserverError")
                    /\ UNCHANGED heap
               ELSE /\ ret' = ReturnedNone
                    /\ heap' = [heap EXCEPT !["obj"][attr] = value]
    /\ UNCHANGED <<cls, buffer, trackerVars, initial_state, taken, memVars>>

\* TrackerMixin.__setattr__ for the tracker attribute: a value that is not a
\* Tracker is refused, a Tracker is stored without being tracked.
TrackerMixin_set_tracker(is_tracker) ==
    /\ cls = "QueryLog"
    /\ op' = [Call("__setattr__") EXCEPT !.attr = "tracker", !.flag = is_tracker,
                                         !.obj = "obj"]
    /\ IF ~is_tracker
       THEN /\ ret' = Raised("RuntimeError")
            /\ UNCHANGED attached
       ELSE /\ ret' = ReturnedNone
            /\ attached' = TRUE
    /\ notified' = <<>>
    /\ UNCHANGED <<logVars, trackerVars, snapVars, cells>>

\* User("A", 100) of the tests, under construction: the attributes are written
\* first and the Tracker, here with or without an attribute list, last.
InitMixinSpec ==
    /\ \E attributes_arg \in {{}, {"name"}} :
          InitTrackerWith(attributes_arg, <<"observer">>, EmptyMap, TRUE, TRUE)
    /\ InitNoSnapshot
    /\ InitCaller
    /\ InitCall

NextMixin ==
    \/ \E attr \in Attrs, value \in Values : TrackerMixin_setattr(attr, value)
    \/ \E is_tracker \in BOOLEAN : TrackerMixin_set_tracker(is_tracker)
    \/ \E attr \in Attrs : Tracker_should_track(attr)
    \/ Tracker_has_changed(None)
    \/ Tracker_activate
    \/ Tracker_deactivate
    \/ Tracker_is_active
    \/ QueryLog_flush

SpecMixin == InitMixinSpec /\ [][NextMixin]_vars

\* ------------------------------- a tracked object whose observers may raise
\* User of the tests with three observers, the second of which may be one that
\* raises.
InitObserverSpec ==
    /\ \E observers_arg \in {<<"f", "boom", "g">>, <<"f", "h", "g">>},
          auto_notify_arg \in BOOLEAN :
          InitTrackerWith({}, observers_arg, EmptyMap, auto_notify_arg, TRUE)
    /\ InitNoSnapshot
    /\ InitCaller
    /\ InitCall

NextObserver ==
    \/ \E attr \in Attrs, value \in Values : TrackerMixin_setattr(attr, value)
    \/ TrackerMixin_set_tracker(TRUE)
    \/ \E old \in Values, new \in Values : Tracker_track("name", old, new, TRUE)
    \/ Tracker_notify_observers("name", "A", "B")
    \/ QueryLog_flush

SpecObserver == InitObserverSpec /\ [][NextObserver]_vars

\* --------------------- a tracked object that is only written through the mixin
NextIntercept ==
    \/ \E attr \in Attrs, value \in Values : TrackerMixin_setattr(attr, value)
    \/ TrackerMixin_set_tracker(TRUE)
    \/ Tracker_deactivate
    \/ Tracker_activate
    \/ QueryLog_flush

SpecIntercept == InitObserverSpec /\ [][NextIntercept]_vars

\* ================================================================= claims
\* The positions of the log that hold an entry for attr.
EntriesFor(attr) == {i \in 1..Len(log) : log[i].attr = attr}

IsEntry(entry, attr, old, new) ==
    entry.attr = attr /\ entry.old = old /\ entry.new = new

\* The calls that consume the selection (ChangeLog names, then QueryLog names).
Terminal == {"all", "first", "last", "count", "delete", "fetch", "flush"}

\* C1: a track(attr, old, new) call with old == new leaves the log (and the
\* buffer) as they were and invokes no observer, global or per-attribute,
\* whatever auto_notify is.
C1_NoOpTrackIsIgnored ==
    [][(op'.name = "track" /\ op'.old = op'.new)
          => (log' = log /\ buffer' = buffer /\ notified' = <<>>)]_vars

\* C1 witness: a no-op track returned normally on a tracker that auto-notifies,
\* has observers registered and already holds an entry.
C1_Witness ==
    /\ op.name = "track" /\ op.old = op.new
    /\ ret.kind = "None"
    /\ auto_notify /\ observers # <<>> /\ attribute_observer_map.keys # {}
    /\ log # <<>>

\* C2: track(attr, old, new) with old != new (raise_excp left at its default)
\* appends exactly one entry (attr, old, new) at the end of the log, keeps the
\* earlier entries, and notifies the observers exactly when auto_notify is true.
C2_TrackRecordsAndNotifies ==
    [][(op'.name = "track" /\ op'.old # op'.new /\ op'.flag)
          => /\ Len(log') = Len(log) + 1
             /\ SubSeq(log', 1, Len(log)) = log
             /\ IsEntry(log'[Len(log')], op'.attr, op'.old, op'.new)
             /\ notified' = IF auto_notify
                            THEN notify_observers(op'.attr, op'.old, op'.new)
                            ELSE <<>>]_vars

\* C3: filter(*attrs).count() is the number of log entries whose attr is in
\* attrs and exclude(*attrs).count() the number whose attr is not in attrs,
\* also when that number is 0.
C3_FilterExcludeCount ==
    [][(op'.name = "count" /\ op.name \in {"filter", "exclude"} /\ op.attrs # {}
        /\ ~op.flag)
          => /\ ret'.kind = "int"
             /\ ret'.val = Cardinality({i \in 1..Len(log) :
                               (log[i].attr \in op.attrs) = (op.name = "filter")})]_vars

\* C4: after a terminal operation (all/fetch, first, last, count, delete/flush),
\* preceded by a filter or not, the buffer is empty, and an all()/fetch() that
\* follows immediately returns the whole log in insertion order.
C4_TerminalClearsBuffer ==
    [][/\ (op'.name \in Terminal => buffer' = <<>>)
       /\ (op.name \in Terminal /\ op'.name \in {"all", "fetch"})
             => (ret'.kind = "list" /\ ret'.val = log /\ log' = log)]_vars

\* C4 witness: a count that returned fewer entries than the log holds (so it
\* consumed a filtered buffer) has left the buffer empty.
C4_Witness ==
    /\ op.name = "count"
    /\ ret.kind = "int" /\ ret.val > 0 /\ ret.val < Len(log)
    /\ buffer = <<>>

\* C5: ChangeLog.has_changed(attr) is False when the log has no entry for attr;
\* with two or more entries for attr it is True iff the old value of the
\* earliest differs from the new value of the latest (A->B then B->A: False).
C5_HasChangedIsNetEffect ==
    (cls = "ChangeLog" /\ op.name = "has_changed")
       => LET idx == EntriesFor(op.attr)
          IN  /\ ret.kind = "bool"
              /\ idx = {} => ret.val = FALSE
              /\ Cardinality(idx) >= 2
                    => ret.val = (log[Min(idx)].old # log[Max(idx)].new)

\* C5 witness: has_changed answered False for an attribute that went A->B, B->A.
C5_Witness ==
    /\ cls = "ChangeLog" /\ op.name = "has_changed" /\ op.attr = "name"
    /\ Len(log) = 2
    /\ IsEntry(log[1], "name", "A", "B") /\ IsEntry(log[2], "name", "B", "A")
    /\ ret.kind = "bool" /\ ret.val = FALSE

C7_TrackerQueryIsNetEffect ==
    (op.name = "has_attribute_changed" /\ op.obj = None /\ op.attr = "name")
       => /\ (Len(log) = 2 /\ IsEntry(log[1], "name", "A", "B")
                           /\ IsEntry(log[2], "name", "B", "A"))
                => (ret.kind = "bool" /\ ret.val = FALSE)
          /\ (Len(log) = 1 /\ IsEntry(log[1], "name", "A", "B"))
                => (ret.kind = "bool" /\ ret.val = TRUE)

\* C8: Tracker.has_changed() without obj is False while the log is empty
\* (freshly constructed, or emptied by a flush) and True once the log holds a
\* tracked change.
C8_HasChangedFollowsLog ==
    (op.name = "has_changed" /\ op.obj = None)
       => (ret.kind = "bool" /\ ret.val = (log # <<>>))

\* C8 witness: has_changed() answered True right after the first genuine change
\* was tracked: the log holds that one entry.
C8_Witness ==
    /\ op.name = "has_changed" /\ op.obj = None
    /\ Len(log) = 1 /\ log[1].old # log[1].new
    /\ ret.kind = "bool" /\ ret.val = TRUE

\* C9: while no snapshot was ever set, has_changed(obj) and
\* has_attribute_changed(attr, obj) raise InitialStateMissingException and leave
\* the log, the buffer and the snapshot as they were.
C9_SnapshotQueriesNeedASnapshot ==
    [][(op'.name \in {"has_changed", "has_attribute_changed"} /\ op'.obj # None
        /\ ~taken.set)
          => /\ ret'.kind = "raise"
             /\ ret'.val = "InitialStateMissingException"
             /\ UNCHANGED <<log, buffer, initial_state, heap>>]_vars

\* C9 witness: has_changed(obj) raised on a tracker without snapshot whose log
\* and buffer are not empty.
C9_Witness ==
    /\ op.name = "has_changed" /\ op.obj = "obj"
    /\ ~taken.set
    /\ ret.kind = "raise" /\ ret.val = "InitialStateMissingException"
    /\ log # <<>> /\ buffer # <<>>

\* C10: once a snapshot was taken (by the constructor or set_initial_state),
\* has_changed(obj) is True iff obj's attributes now differ from its attributes
\* when the most recent snapshot was taken; so False right after the snapshot
\* and again after a value is written back.
C10_SnapshotIsFrozen ==
    (op.name = "has_changed" /\ op.obj = "obj" /\ taken.set)
       => (ret.kind = "bool" /\ ret.val = (heap["obj"] # taken.dict))

\* C10 witness: has_changed(obj) answered True after obj was written to.
C10_Witness ==
    /\ op.name = "has_changed" /\ op.obj = "obj"
    /\ taken.set
    /\ ret.kind = "bool" /\ ret.val = TRUE

\* C11: filter() and exclude() called with no attribute both raise the class's
\* InvalidOperation exception to the caller, and the failed call leaves the log
\* and the buffer as they were.
C11_EmptySelectionRaises ==
    [][(op'.name \in {"filter", "exclude"} /\ op'.attrs = {})
          => /\ ret'.kind = "raise"
             /\ ret'.val = IF cls = "ChangeLog"
                             THEN "InvalidChangeLogOperationException"
                             ELSE "InvalidQueryLogOperationException"
             /\ UNCHANGED <<log, buffer>>]_vars

\* The entries of s at the positions in keep, in their order in s.
Restrict(s, keep) ==
    LET rank(i) == Cardinality({j \in keep : j <= i})
    IN  [k \in 1..Cardinality(keep) |-> s[CHOOSE i \in keep : rank(i) = k]]

C13_DeleteRemovesTheSelection ==
    [][(op'.name \in {"delete", "flush"})
          => /\ (op.name \in {"filter", "exclude"} /\ op.attrs # {} /\ ~op.flag)
                   => log' = Restrict(log, {i \in 1..Len(log) :
                                 (log[i].attr \in op.attrs) # (op.name = "filter")})
             /\ (buffer = <<>> /\ op.name \notin {"filter", "exclude"})
                   => log' = <<>>]_vars

\* What the entries of the log show to a reader: the old and new of each.
StoredValues == [i \in 1..Len(log) |-> <<Content(log[i].old), Content(log[i].new)>>]

\* C14: once an entry is recorded (by ChangeLog.push, or by QueryLog.push
\* directly or under Tracker.track), an in-place mutation of the object that was
\* passed as old or new never changes the old and new any entry of the log
\* shows.
C14_HistoryIsIsolated ==
    [][(op'.name = "mutate") => StoredValues' = StoredValues]_vars

\* The invocation of one observer with the arguments of the call op'.
Invocation(observer, call) ==
    [observer |-> observer, attr |-> call.attr, old |-> call.old, new |-> call.new]

\* C15: when attribute_observer_map and the global observers list are both
\* non-empty, notify_observers(attr, old, new) invokes the observers the map
\* registers for attr and then also every global observer.
C15_BothRegistriesFire ==
    [][(op'.name = "notify_observers" /\ attribute_observer_map.keys # {}
        /\ observers # <<>>)
          => notified' = [i \in 1..Len(MapGet(op'.attr)) |->
                              Invocation(MapGet(op'.attr)[i], op')]
                         \o [i \in 1..Len(observers) |-> Invocation(observers[i], op')]]_vars

\* C16: whenever the global observers list is non-empty,
\* notify_observers(attr, old, new) invokes every global observer, whatever
\* attr is and whatever the attributes allow-list holds.
C16_GlobalObserversAlwaysFire ==
    [][(op'.name = "notify_observers" /\ observers # <<>>)
          => \A i \in 1..Len(observers) :
                \E k \in 1..Len(notified') : notified'[k] = Invocation(observers[i], op')]_vars

\* C17: the Tracker is always-on once constructed: whatever the constructor got
\* and whatever was called since, track(attr, old, new) with old != new neither
\* raises nor leaves the log as it was.
C17_AlwaysOn ==
    [][(op'.name = "track" /\ op'.old # op'.new /\ op'.flag)
          => (ret'.kind # "raise" /\ log' # log)]_vars

\* A write through the mixin that reaches track with a genuine change.
GenuineWrite(call) ==
    /\ call.name = "__setattr__" /\ call.attr \in Attrs
    /\ attached /\ should_track(call.attr)
    /\ heap["obj"][call.attr] \notin {Absent, call.new}

\* C18: after deactivate(), is_active() is False and an attribute write on a
\* tracked object completes without error and leaves the length of the log as
\* it was; after activate(), is_active() is True and a genuine change is
\* recorded again: the log grows by one.
C18_DeactivatedWritesAreDropped ==
    [][/\ (op'.name = "is_active" /\ op.name \in {"activate", "deactivate"})
            => (ret'.kind = "bool" /\ ret'.val = (op.name = "activate"))
       /\ (GenuineWrite(op') /\ ~active)
            => /\ ret'.kind = "None"
               /\ heap'["obj"][op'.attr] = op'.new
               /\ Len(log') = Len(log)
       /\ (GenuineWrite(op') /\ active)
            => /\ ret'.kind = "None"
               /\ heap'["obj"][op'.attr] = op'.new
               /\ Len(log') = Len(log) + 1]_vars

\* C19: should_track(attr) returns True when the tracker has no attribute list
\* or attr is in the list, and False otherwise; a write through the mixin to an
\* attribute for which should_track is False adds no entry to the log (and is
\* applied).
C19_UntrackedAttributesAreSkipped ==
    [][/\ (op'.name = "should_track")
            => /\ ret'.kind = "bool"
               /\ ret'.val = (attributes = {} \/ op'.attr \in attributes)
       /\ (op'.name = "__setattr__" /\ op'.attr \in Attrs
           /\ attributes # {} /\ op'.attr \notin attributes)
            => /\ log' = log
               /\ ret'.kind = "None"
               /\ heap'["obj"][op'.attr] = op'.new]_vars

\* C19 witness: on an object whose tracker lists only "name" and has recorded
\* changes of it, a write to "age" was just applied.
C19_Witness ==
    /\ op.name = "__setattr__" /\ op.attr = "age"
    /\ attached /\ attributes = {"name"}
    /\ heap["obj"]["age"] = op.new
    /\ log # <<>> /\ \A i \in 1..Len(log) : log[i].attr = "name"

\* The registries of the tracker: the global observers and each list of the map.
ObserverRegistries ==
    {observers} \cup {attribute_observer_map.val[a] : a \in attribute_observer_map.keys}

\* C20: within one notify_observers call (made directly, or by track), the
\* observers of a registry are invoked in registration order, each exactly
\* once, each with the (attr, old, new) of the call.
C20_ObserversInRegistrationOrder ==
    [][(op'.name \in {"track", "notify_observers"} /\ notified' # <<>>)
          => \E registry \in ObserverRegistries :
                /\ Len(notified') = Len(registry)
                /\ \A i \in 1..Len(registry) :
                      notified'[i] = Invocation(registry[i], op')]_vars

\* C20 witness: a track call has just invoked the two global observers, f
\* before g, with its own arguments.
C20_Witness ==
    /\ op.name = "track"
    /\ observers = <<"f", "g">>
    /\ notified = <<Invocation("f", op), Invocation("g", op)>>

\* The position of the first global observer that raises, 0 when none does.
FirstFailing ==
    IF \E i \in 1..Len(observers) : observers[i] \in Failing
    THEN CHOOSE i \in 1..Len(observers) :
            observers[i] \in Failing /\ \A j \in 1..(i - 1) : observers[j] \notin Failing
    ELSE 0

\* C21: when an observer raises during an auto-notified track of a genuine
\* change, track raises to its caller; made by the mixin for an attribute
\* write, the write is not applied; the observers before the failing one and
\* that one were invoked and none after it; and the entry of the change is at
\* the end of the log all the same.
C21_ObserverFailureAbortsTheWrite ==
    [][(/\ \/ GenuineWrite(op')
           \/ (op'.name = "track" /\ op'.old # op'.new)
        /\ active /\ auto_notify /\ attribute_observer_map.keys = {}
        /\ FirstFailing > 0)
          => /\ ret'.kind = "raise" /\ ret'.val = "ObserverError"
             /\ heap' = heap
             /\ notified' = [i \in 1..FirstFailing |-> Invocation(observers[i],
                                [op' EXCEPT !.old = log'[Len(log')].old])]
             /\ Len(log') = Len(log) + 1
             /\ SubSeq(log', 1, Len(log)) = log
             /\ log'[Len(log')].attr = op'.attr
             /\ log'[Len(log')].new = op'.new
             /\ log'[Len(log')].old = IF op'.name = "track" THEN op'.old
                                      ELSE heap["obj"][op'.attr]]_vars

\* C21 witness: a write of name through the mixin was aborted by the second
\* observer: the object still holds the old value, the last entry of the log
\* records the value it never received, and the third observer was not called.
C21_Witness ==
    /\ op.name = "__setattr__" /\ op.attr = "name"
    /\ ret.kind = "raise" /\ ret.val = "ObserverError"
    /\ log # <<>> /\ log[Len(log)].new = op.new
    /\ heap["obj"]["name"] # op.new
    /\ Len(notified) = 2 /\ notified[2].observer = "boom"

\* C22: the log-based change query for attr (ChangeLog.has_changed,
\* QueryLog.has_changes, Tracker.has_attribute_changed(attr) without obj)
\* answers what it answers for the same log with an empty buffer, whatever a
\* pending filter/exclude left in the buffer, and leaves the buffer as it found
\* it.
C22_ChangeQueryIgnoresTheBuffer ==
    [][(\/ cls = "ChangeLog" /\ op'.name = "has_changed"
        \/ cls = "QueryLog" /\ op'.name \in {"has_changes", "has_attribute_changed"}
                            /\ op'.obj = None)
          => /\ ret'.kind = "bool"
             /\ ret'.val = IF cls = "ChangeLog" THEN has_changed(op'.attr)
                           ELSE has_changes(<<>>, op'.attr)
             /\ buffer' = buffer]_vars

\* Whether b is l with some entries left out, the others in their order.
IsSubsequence(b, l) ==
    \E f \in [1..Len(b) -> 1..Len(l)] :
        /\ \A i \in 1..Len(b) : b[i] = l[f[i]]
        /\ \A i, j \in 1..Len(b) : i < j => f[i] < f[j]

\* The entries of the log that the filter/exclude call selects, in log order.
Selection(call) ==
    Restrict(log, {i \in 1..Len(log) :
                      /\ (log[i].attr \in call.attrs) = (call.name = "filter")
                      /\ call.flag => is_a_change(log[i])})

\* C23: in every reachable state the buffer is empty or an order-preserving
\* subsequence of the current log; a filter/exclude call with attributes puts
\* into it the entries of the log that satisfy its predicate, whatever the
\* buffer held; every other call keeps the buffer or empties it, and push
\* keeps it: so what the buffer holds satisfies the predicate of the most
\* recent filter/exclude call.
C23_BufferIsTheLastSelection ==
    /\ [](buffer = <<>> \/ IsSubsequence(buffer, log))
    /\ [][/\ (op'.name \in {"filter", "exclude"} /\ op'.attrs # {})
               => buffer' = Selection(op')
          /\ ~(op'.name \in {"filter", "exclude"} /\ op'.attrs # {})
               => buffer' \in {buffer, <<>>}
          /\ (op'.name = "push") => buffer' = buffer]_vars

\* C23 witness: a push went through while the buffer held a selection, which
\* is now a proper part of the log.
C23_Witness ==
    /\ op.name = "push"
    /\ buffer # <<>> /\ Len(buffer) < Len(log)

\* C24: the mixin never logs the tracker attribute and logs nothing while the
\* object has no tracker: assigning the Tracker adds no entry, a write made
\* before a tracker is attached is applied and adds no entry and notifies
\* nobody, so the log of an object is empty when its tracker is attached and
\* has_changed() is then False.
C24_NothingLoggedBeforeATracker ==
    /\ [](~attached => log = <<>>)
    /\ [][/\ (op'.name = "__setattr__" /\ op'.attr = "tracker") => log' = log
          /\ (op'.name = "__setattr__" /\ op'.attr \in Attrs /\ ~attached)
               => /\ log' = log
                  /\ notified' = <<>>
                  /\ ret'.kind = "None"
                  /\ heap'["obj"][op'.attr] = op'.new
          /\ (~attached /\ attached') => log' = <<>>
          /\ (op'.name = "has_changed" /\ op.name = "__setattr__"
              /\ op.attr = "tracker" /\ log = <<>>)
               => (ret'.kind = "bool" /\ ret'.val = FALSE)]_vars

\* C24 witness: has_changed() answered False on an object constructed the way
\* User.__init__ does: name and age written, then the Tracker assigned.
C24_Witness ==
    /\ op.name = "has_changed" /\ op.obj = None
    /\ ret.kind = "bool" /\ ret.val = FALSE
    /\ attached /\ log = <<>>
    /\ heap["obj"]["name"] = "B" /\ heap["obj"]["age"] = "A"

\* C25: while every write to the tracked object goes through the mixin, the log
\* agrees with the object in every reachable state: for each attribute, the old
\* of an entry is the new of the entry before it for that attribute, and the
\* new of the latest entry for the attribute is what the object holds now.
C25_LogAgreesWithTheObject ==
    \A attr \in Attrs :
        /\ \A i, j \in EntriesFor(attr) :
              (i < j /\ ~\E k \in EntriesFor(attr) : i < k /\ k < j)
                 => log[j].old = log[i].new
        /\ EntriesFor(attr) # {}
              => log[Max(EntriesFor(attr))].new = heap["obj"][attr]

\* The calls on a log that only read it or select from it.
ReadOnly ==
    {"filter", "exclude", "first", "last", "all", "fetch", "count",
     "get_unique_attributes", "has_changed", "has_changes", "get_last_change",
     "get_first_change"}

\* C26: the log is append-only except for delete (flush on a QueryLog): filter,
\* exclude, first, last, all/fetch, count, get_unique_attributes and the change
\* queries leave the log as it is; push appends one entry at the end and keeps
\* the others; only delete/flush makes the log shorter, and what it leaves is
\* the old log with entries left out, the survivors unchanged and in their
\* order; first() returns the selected entry at the lowest position and last()
\* the one at the highest (selected: the buffer when it holds entries, the
\* whole log when no selection was made).
C26_AppendOnlyExceptDelete ==
    [][/\ (op'.name \in ReadOnly) => log' = log
       /\ (op'.name = "push")
            => (Len(log') = Len(log) + 1 /\ SubSeq(log', 1, Len(log)) = log)
       /\ (log' # log /\ op'.name # "push") => op'.name \in {"delete", "flush"}
       /\ (op'.name \in {"delete", "flush"}) => IsSubsequence(log', log)
       /\ (op'.name \in {"first", "last"} /\ buffer # <<>>)
            => /\ ret'.kind = "Entry"
               /\ ret'.val = buffer[IF op'.name = "first" THEN 1 ELSE Len(buffer)]
               /\ IsSubsequence(buffer, log)
       /\ (op'.name \in {"first", "last"} /\ buffer = <<>>
           /\ op.name \notin {"filter", "exclude"} /\ log # <<>>)
            => /\ ret'.kind = "Entry"
               /\ ret'.val = log[IF op'.name = "first" THEN 1 ELSE Len(log)]]_vars

\* C26 witness: last() has just returned the entry at the end of a log of two
\* different entries, the second of which was pushed after the first.
C26_Witness ==
    /\ op.name = "last"
    /\ Len(log) = 2 /\ log[1] # log[2]
    /\ ret.kind = "Entry" /\ ret.val = log[2]

====
